---- MODULE Spec2Model ----
(***************************************************************************)
(* Five Words poetry game: the round lifecycle, judge rotation and scoring *)
(* engine of the server (routes.ts) over its storage (IStorage).           *)
(*                                                                         *)
(* The storage tables are sequences indexed by the serial id of the row.   *)
(* getPlayersByGame returns a game's rows in insertion order (the order of *)
(* MemStorage's Map; the database select has no ORDER BY and is taken to   *)
(* return rows in id order).                                               *)
(***************************************************************************)
EXTENDS Integers, Sequences, FiniteSets, Bags, TLC

VARIABLES games, players, rounds, poems, now, resp, inflight, drawn

vars == <<games, players, rounds, poems, now, resp, inflight, drawn>>

store == <<games, players, rounds, poems>>

(***************************************************************************)
(* Bounds of the model.                                                    *)
(***************************************************************************)
MaxGames == 2          \* game rows created
MaxPlayerRows == 2     \* player rows created under Spec
MaxRoundRows == 2      \* round rows created under Spec
MaxRotPlayers == 3     \* player rows created under SpecRot
MaxRotRounds == 3      \* round rows created under SpecRot
MaxNRPlayers == 2      \* player rows created under SpecNR
MaxNRRounds == 3       \* round rows created under SpecNR
NumUserIds == 2        \* user ids a create-game request may name
MaxTotalRounds == 3    \* largest totalRounds a create-game request asks for
MaxScore == 2          \* cap on a player's score
MaxInflight == 2       \* next-round requests in flight under SpecNR
MaxPoemPlayers == 2    \* player rows created under SpecPoem
MaxClockTime == 3      \* latest time the clock reaches under SpecClock
MaxWordRounds == 2     \* round rows created under SpecWords
MaxDrawCount == 5      \* largest small count asked of generateRandomWords
RandDen == 3           \* Math.random returns k / RandDen, k in 0..RandDen-1
RandLen == 3           \* period of the random streams under SpecDraw
MaxJoinRounds == 2     \* round rows created under SpecJoin

(***************************************************************************)
(* Program constants.                                                      *)
(***************************************************************************)
Null == 0              \* null / undefined; ids and times in use are > 0
TimeLimit == 300       \* timeLimit of every round, seconds
MinTotalRounds == 1    \* createGameRequestSchema.totalRounds min
MaxTotalRoundsAllowed == 10
MinPlayers == 2        \* createGameRequestSchema.playerIds min
MaxPlayers == 5
NextRoundMinPlayers == 2
WordsPerRound == 5     \* generateRandomWords(5) of a new round

Statuses == <<"setup", "writing", "judging", "completed">>

StatusSet == {Statuses[i] : i \in 1..Len(Statuses)}

\* Position of a status in the order setup < writing < judging < completed.
Rank(s) == CHOOSE i \in 1..Len(Statuses) : Statuses[i] = s

\* Poem texts: empty, whitespace only, and a text with a visible character.
Contents == {"", " ", "a"}

\* Variant of Trim that keeps whitespace.
TrimNone(c) == c

\* String.prototype.trim on the modelled texts.
Trim(c) == IF c = " " THEN "" ELSE c

UserIds == 1..NumUserIds

\* Bodies of create-game requests: totalRounds and playerIds, valid or not.
TotalRoundsInputs == 0..MaxTotalRounds

RosterInputs(cap) == UNION {[1..n -> UserIds] : n \in 1..cap}

Indices(s) == [i \in 1..Len(s) |-> i]

(***************************************************************************)
(* The word generator (shared/wordGenerator).                              *)
(***************************************************************************)
poeticWords ==
    <<"ocean", "mountain", "forest", "river", "sky",
      "moon", "star", "sun", "cloud", "rain",
      "flower", "tree", "leaf", "thunder", "wind",
      "dawn", "dusk", "twilight", "sunrise", "sunset",
      "morning", "evening", "night", "day", "moment",
      "eternity", "forever", "instant", "season", "autumn",
      "winter", "spring", "summer", "time", "hour",
      "midnight", "memory", "yesterday", "tomorrow", "today",
      "love", "hope", "dream", "joy", "sorrow",
      "anger", "peace", "fear", "wonder", "desire",
      "passion", "longing", "grief", "delight", "despair",
      "courage", "faith", "trust", "loneliness", "serenity",
      "freedom", "truth", "beauty", "silence", "whisper",
      "shadow", "light", "darkness", "echo", "journey",
      "mirror", "reflection", "spirit", "soul", "destiny",
      "fate", "wisdom", "infinity", "mystery", "secret",
      "feather", "glass", "stone", "crystal", "candle",
      "flame", "door", "window", "bridge", "path",
      "treasure", "veil", "key", "crown", "sword",
      "book", "page", "letter", "portrait", "melody",
      "ancient", "eternal", "fragile", "broken", "golden",
      "silver", "velvet", "crimson", "azure", "emerald",
      "silent", "hollow", "sacred", "wild", "gentle",
      "fierce", "luminous", "hidden", "forgotten", "distant">>

PoolWords == {poeticWords[i] : i \in 1..Len(poeticWords)}

\* A random stream is the sequence of numerators k of the values k / RandDen
\* that successive calls of Math.random return; a stream shorter than the
\* number of calls repeats.
RandomStreams(len) == [1..len -> 0..(RandDen - 1)]

\* The stream on which Math.random always returns 0.
ZeroStream == {<<0>>}

\* Numerator of the value the call of iteration i (from 0) returns.
MathRandom(rnd, i) == rnd[(i % Len(rnd)) + 1]

\* Math.floor(Math.random() * availableWords.length), an index from 0
RandomIndex(rnd, i, length) == (MathRandom(rnd, i) * length) \div RandDen

\* Variant of splice that removes nothing.
spliceNone(s, index) == s

\* availableWords.splice(index, 1): the array without the element at index
splice(s, index) == SubSeq(s, 1, index) \o SubSeq(s, index + 2, Len(s))

\* Variant of LoopDone that runs one iteration more.
LoopDoneLate(i, count, availableWords) ==
    i > count \/ Len(availableWords) = 0

\* The loop of generateRandomWords stops: i < count fails, or the break.
LoopDone(i, count, availableWords) ==
    i >= count \/ Len(availableWords) = 0

\* The locals of generateRandomWords when the loop is entered.
LoopEntry == [result |-> <<>>, availableWords |-> poeticWords, i |-> 0]

\* One iteration of the loop on the locals st.
LoopBody(st, rnd) ==
    LET randomIndex == RandomIndex(rnd, st.i, Len(st.availableWords))
        selectedWord == st.availableWords[randomIndex + 1]
    IN [result |-> Append(st.result, selectedWord),
        availableWords |-> splice(st.availableWords, randomIndex),
        i |-> st.i + 1]

RECURSIVE DrawWords(_, _, _)
\* The loop of generateRandomWords from the locals st on.
DrawWords(st, count, rnd) ==
    IF LoopDone(st.i, count, st.availableWords) THEN st.result
    ELSE DrawWords(LoopBody(st, rnd), count, rnd)

generateRandomWords(count, rnd) == DrawWords(LoopEntry, count, rnd)

\* Counts asked of the generator: small ones, the pool size and one more.
CountInputs == (0..MaxDrawCount) \cup {Len(poeticWords), Len(poeticWords) + 1}

\* No call of the generator is being followed.
NoCall ==
    [count |-> 0, rnd |-> <<0>>, done |-> FALSE,
     st |-> [result |-> <<>>, availableWords |-> <<>>, i |-> 0]]

(***************************************************************************)
(* Storage operations (IStorage).                                          *)
(***************************************************************************)
createGame(gs, totalRounds, createdBy) ==
    Append(gs, [totalRounds |-> totalRounds, createdBy |-> createdBy,
                currentRound |-> 1, currentJudgeIndex |-> 0,
                status |-> "waiting"])

\* getGame finds a row (the result is not undefined).
hasGame(gs, id) == id \in DOMAIN gs

\* Partial<Game> updates used by the routes.
updateGameStatus(gs, id, status) ==
    IF id \in DOMAIN gs THEN [gs EXCEPT ![id].status = status] ELSE gs

\* Variant of updateGameRound that leaves currentJudgeIndex as it was.
updateGameRoundKeepJudge(gs, id, currentRound, currentJudgeIndex) ==
    IF id \in DOMAIN gs
    THEN [gs EXCEPT ![id].currentRound = currentRound]
    ELSE gs

\* updateGame(gameId, { currentRound, currentJudgeIndex })
updateGameRound(gs, id, currentRound, currentJudgeIndex) ==
    IF id \in DOMAIN gs
    THEN [gs EXCEPT ![id].currentRound = currentRound,
                    ![id].currentJudgeIndex = currentJudgeIndex]
    ELSE gs

addPlayerToGame(ps, gameId, userId, isHost) ==
    Append(ps, [gameId |-> gameId, userId |-> userId, score |-> 0,
                isHost |-> isHost])

\* Row ids of a game's players, in insertion order.
getPlayersByGame(ps, gameId) ==
    SelectSeq(Indices(ps), LAMBDA i : ps[i].gameId = gameId)

updatePlayerScore(ps, playerId, scoreIncrement) ==
    IF playerId \in DOMAIN ps
    THEN [ps EXCEPT ![playerId].score = @ + scoreIncrement]
    ELSE ps

createRound(rs, gameId, roundNumber, judgeId, words) ==
    Append(rs, [gameId |-> gameId, roundNumber |-> roundNumber,
                judgeId |-> judgeId, words |-> words,
                timeLimit |-> TimeLimit,
                status |-> "setup", winnerId |-> Null, endTime |-> Null])

\* getRound finds a row.
hasRound(rs, id) == id \in DOMAIN rs

updateRoundStatus(rs, id, status) ==
    IF id \in DOMAIN rs THEN [rs EXCEPT ![id].status = status] ELSE rs

setRoundWinner(rs, id, winnerId) ==
    IF id \in DOMAIN rs
    THEN [rs EXCEPT ![id].winnerId = winnerId, ![id].status = "completed"]
    ELSE rs

updateRoundEndTime(rs, id, endTime) ==
    IF id \in DOMAIN rs THEN [rs EXCEPT ![id].endTime = endTime] ELSE rs

\* author is not a stored column: it records the roster row the creating
\* loop was visiting when it made the poem.
createPoem(pms, roundId, playerId, author) ==
    Append(pms, [roundId |-> roundId, playerId |-> playerId, content |-> "",
                 submitted |-> FALSE, submittedAt |-> Null,
                 author |-> author])

updatePoem(pms, id, content) ==
    IF id \in DOMAIN pms THEN [pms EXCEPT ![id].content = content] ELSE pms

submitPoem(pms, id, t) ==
    IF id \in DOMAIN pms
    THEN [pms EXCEPT ![id].submitted = TRUE, ![id].submittedAt = t]
    ELSE pms

\* getPoem finds a row.
hasPoem(pms, id) == id \in DOMAIN pms

\* Ids of the poems of a round.
getPoemsByRound(pms, roundId) ==
    {i \in DOMAIN pms : pms[i].roundId = roundId}

(***************************************************************************)
(* Helpers of the route handlers.                                          *)
(***************************************************************************)
\* Variant of ValidCreateGame without the upper limit on playerIds.
ValidCreateGameLoose(totalRounds, playerIds) ==
    /\ totalRounds >= MinTotalRounds
    /\ totalRounds <= MaxTotalRoundsAllowed
    /\ Len(playerIds) >= MinPlayers

\* createGameRequestSchema.safeParse
ValidCreateGame(totalRounds, playerIds) ==
    /\ totalRounds >= MinTotalRounds
    /\ totalRounds <= MaxTotalRoundsAllowed
    /\ Len(playerIds) >= MinPlayers
    /\ Len(playerIds) <= MaxPlayers

RECURSIVE AddPlayers(_, _, _, _)
\* for (i = 0; i < playerIds.length; i++) addPlayerToGame(...)
AddPlayers(ps, gameId, playerIds, i) ==
    IF i > Len(playerIds) THEN ps
    ELSE AddPlayers(addPlayerToGame(ps, gameId, playerIds[i], i = 1),
                    gameId, playerIds, i + 1)

\* POST /games: does the first round get a poem for this playerId?
FirstRoundWrites(playerId, hostId) == playerId # hostId

RECURSIVE FirstRoundPoems(_, _, _, _, _, _)
\* for (const playerId of playerIds) if (playerId !== hostId) createPoem(...)
\* base is the number of player rows that existed before this game.
FirstRoundPoems(pms, roundId, playerIds, hostId, base, i) ==
    IF i > Len(playerIds) THEN pms
    ELSE FirstRoundPoems(
            IF FirstRoundWrites(playerIds[i], hostId)
            THEN createPoem(pms, roundId, playerIds[i], base + i)
            ELSE pms,
            roundId, playerIds, hostId, base, i + 1)

\* Variant of NextRoundWrites that compares the row id, not the user id,
\* with the judge's user id.
NextRoundWritesByRowId(ps, id, nextJudgeId) == id # nextJudgeId

\* next-round: does the new round get a poem for the player row with this id?
NextRoundWrites(ps, id, nextJudgeId) == ps[id].userId # nextJudgeId

RECURSIVE NextRoundPoems(_, _, _, _, _, _)
\* for (const player of players) if (player.userId !== nextJudgeId) ...
NextRoundPoems(pms, ps, roundId, roster, nextJudgeId, i) ==
    IF i > Len(roster) THEN pms
    ELSE NextRoundPoems(
            IF NextRoundWrites(ps, roster[i], nextJudgeId)
            THEN createPoem(pms, roundId, roster[i], roster[i])
            ELSE pms,
            ps, roundId, roster, nextJudgeId, i + 1)

\* Variant of GameOver with a strict comparison.
GameOverStrict(game) == game.currentRound > game.totalRounds

\* if (game.currentRound >= game.totalRounds)
GameOver(game) == game.currentRound >= game.totalRounds

\* Variant of NextRoundNumber that skips a round number.
NextRoundNumberSkip(game) == game.currentRound + 2

\* game.currentRound + 1
NextRoundNumber(game) == game.currentRound + 1

\* players[nextJudgeIndex].userId
NextJudgeId(ps, roster, nextJudgeIndex) == ps[roster[nextJudgeIndex + 1]].userId

\* Variant of NextJudgeIndex that does not advance.
NextJudgeIndexStuck(game, playerCount) ==
    game.currentJudgeIndex % playerCount

\* (game.currentJudgeIndex + 1) % playerCount
NextJudgeIndex(game, playerCount) ==
    (game.currentJudgeIndex + 1) % playerCount

\* poems.every(p => p.submitted)
AllSubmitted(pms, roundId) ==
    \A i \in getPoemsByRound(pms, roundId) : pms[i].submitted

(***************************************************************************)
(* Initial state: empty tables (a fresh database), no request in flight.   *)
(***************************************************************************)
Init ==
    /\ games = <<>>
    /\ players = <<>>
    /\ rounds = <<>>
    /\ poems = <<>>
    /\ now = 1
    /\ resp = Null
    /\ inflight = EmptyBag
    /\ drawn = NoCall

(***************************************************************************)
(* Route handlers, each run to completion.                                 *)
(***************************************************************************)
\* POST /games
PostGames(totalRounds, playerIds, rnd, playerCap, roundCap) ==
    /\ Len(games) < MaxGames
    /\ Len(players) + Len(playerIds) <= playerCap
    /\ Len(rounds) < roundCap
    /\ IF ~ValidCreateGame(totalRounds, playerIds)
       THEN /\ resp' = 400
            /\ UNCHANGED store
       ELSE LET hostId == playerIds[1]
                gameId == Len(games) + 1
                roundId == Len(rounds) + 1
            IN /\ games' = createGame(games, totalRounds, hostId)
               /\ players' = AddPlayers(players, gameId, playerIds, 1)
               /\ rounds' = createRound(rounds, gameId, 1, hostId,
                              generateRandomWords(WordsPerRound, rnd))
               /\ poems' = FirstRoundPoems(poems, roundId, playerIds, hostId,
                                           Len(players), 1)
               /\ resp' = 201
    /\ UNCHANGED <<now, drawn, inflight>>

\* PUT /rounds/:id/status
PutRoundStatus(roundId, status) ==
    /\ IF ~hasRound(rounds, roundId)
       THEN /\ resp' = 404
            /\ UNCHANGED rounds
       ELSE LET round == rounds[roundId]
                timed == IF status = "writing"
                         THEN updateRoundEndTime(rounds, roundId,
                                                 now + round.timeLimit)
                         ELSE rounds
            IN /\ rounds' = updateRoundStatus(timed, roundId, status)
               /\ resp' = 200
    /\ UNCHANGED <<games, players, poems, now, drawn, inflight>>

\* PUT /poems/:id
PutPoem(poemId, content) ==
    /\ IF ~hasPoem(poems, poemId)
       THEN /\ resp' = 404
            /\ UNCHANGED poems
       ELSE /\ poems' = updatePoem(poems, poemId, content)
            /\ resp' = 200
    /\ UNCHANGED <<games, players, rounds, now, drawn, inflight>>

\* POST /poems/:id/submit
PostPoemSubmit(poemId) ==
    /\ IF ~hasPoem(poems, poemId)
       THEN /\ resp' = 404
            /\ UNCHANGED <<poems, rounds>>
       ELSE IF Trim(poems[poemId].content) = ""
       THEN /\ resp' = 400
            /\ UNCHANGED <<poems, rounds>>
       ELSE LET poem == poems[poemId]
                submittedPoems == submitPoem(poems, poemId, now)
            IN /\ poems' = submittedPoems
               /\ rounds' = IF /\ hasRound(rounds, poem.roundId)
                               /\ AllSubmitted(submittedPoems, poem.roundId)
                               /\ rounds[poem.roundId].status = "writing"
                            THEN updateRoundStatus(rounds, poem.roundId,
                                                   "judging")
                            ELSE rounds
               /\ resp' = 200
    /\ UNCHANGED <<games, players, now, drawn, inflight>>

\* Variant of PostRoundWinner without the look-up of the round.
PostRoundWinnerUnchecked(roundId, poemId) ==
    /\ IF ~hasPoem(poems, poemId)
       THEN /\ resp' = 404
            /\ UNCHANGED <<rounds, players>>
       ELSE LET winnerId == poems[poemId].playerId
            IN /\ winnerId \in DOMAIN players
                    => players[winnerId].score < MaxScore
               /\ rounds' = setRoundWinner(rounds, roundId, winnerId)
               /\ players' = updatePlayerScore(players, winnerId, 1)
               /\ resp' = 200
    /\ UNCHANGED <<games, poems, now, drawn, inflight>>

\* POST /rounds/:id/winner
PostRoundWinner(roundId, poemId) ==
    /\ IF ~hasPoem(poems, poemId)
       THEN /\ resp' = 404
            /\ UNCHANGED <<rounds, players>>
       ELSE IF ~hasRound(rounds, roundId)
       THEN /\ resp' = 404
            /\ UNCHANGED <<rounds, players>>
       ELSE LET winnerId == poems[poemId].playerId
            IN /\ winnerId \in DOMAIN players
                    => players[winnerId].score < MaxScore
               /\ rounds' = setRoundWinner(rounds, roundId, winnerId)
               /\ players' = updatePlayerScore(players, winnerId, 1)
               /\ resp' = 200
    /\ UNCHANGED <<games, poems, now, drawn, inflight>>

\* POST /games/:id/next-round
PostNextRound(gameId, rnd, roundCap) ==
    /\ IF ~hasGame(games, gameId)
       THEN /\ resp' = 404
            /\ UNCHANGED <<games, rounds, poems>>
       ELSE IF GameOver(games[gameId])
       THEN /\ games' = updateGameStatus(games, gameId, "completed")
            /\ resp' = 400
            /\ UNCHANGED <<rounds, poems>>
       ELSE LET game == games[gameId]
                roster == getPlayersByGame(players, gameId)
                playerCount == Len(roster)
            IN IF playerCount < NextRoundMinPlayers
               THEN /\ resp' = 400
                    /\ UNCHANGED <<games, rounds, poems>>
               ELSE LET nextJudgeIndex == NextJudgeIndex(game, playerCount)
                        nextJudgeId ==
                            NextJudgeId(players, roster, nextJudgeIndex)
                        nextRoundNumber == NextRoundNumber(game)
                        roundId == Len(rounds) + 1
                    IN /\ Len(rounds) < roundCap
                       /\ games' = updateGameRound(games, gameId,
                                       nextRoundNumber, nextJudgeIndex)
                       /\ rounds' = createRound(rounds, gameId,
                                       nextRoundNumber, nextJudgeId,
                                       generateRandomWords(WordsPerRound,
                                                           rnd))
                       /\ poems' = NextRoundPoems(poems, players, roundId,
                                       roster, nextJudgeId, 1)
                       /\ resp' = 200
    /\ UNCHANGED <<players, now, drawn, inflight>>

(***************************************************************************)
(* Spec: every handler, run to completion, one request at a time.          *)
(***************************************************************************)
CreateGameReq ==
    \E totalRounds \in TotalRoundsInputs,
       playerIds \in RosterInputs(MaxPlayerRows), rnd \in ZeroStream :
        PostGames(totalRounds, playerIds, rnd, MaxPlayerRows, MaxRoundRows)

RoundStatusReq ==
    \E roundId \in 1..(Len(rounds) + 1), status \in StatusSet :
        PutRoundStatus(roundId, status)

UpdatePoemReq ==
    \E poemId \in 1..(Len(poems) + 1), content \in Contents :
        PutPoem(poemId, content)

SubmitPoemReq ==
    \E poemId \in 1..(Len(poems) + 1) : PostPoemSubmit(poemId)

SelectWinnerReq ==
    \E roundId \in 1..(Len(rounds) + 1), poemId \in 1..(Len(poems) + 1) :
        PostRoundWinner(roundId, poemId)

NextRoundReq ==
    \E gameId \in 1..(Len(games) + 1), rnd \in ZeroStream :
        PostNextRound(gameId, rnd, MaxRoundRows)

Next ==
    \/ CreateGameReq
    \/ RoundStatusReq
    \/ UpdatePoemReq
    \/ SubmitPoemReq
    \/ SelectWinnerReq
    \/ NextRoundReq

Spec == Init /\ [][Next]_vars

(***************************************************************************)
(* SpecRot: game creation and next-round over more players and rounds      *)
(* (judge rotation and poem creation).                                     *)
(***************************************************************************)
RotCreateGameReq ==
    \E totalRounds \in TotalRoundsInputs,
       playerIds \in RosterInputs(MaxRotPlayers), rnd \in ZeroStream :
        PostGames(totalRounds, playerIds, rnd, MaxRotPlayers, MaxRotRounds)

RotNextRoundReq ==
    \E gameId \in 1..(Len(games) + 1), rnd \in ZeroStream :
        PostNextRound(gameId, rnd, MaxRotRounds)

NextRot ==
    \/ RotCreateGameReq
    \/ RotNextRoundReq

SpecRot == Init /\ [][NextRot]_vars

(***************************************************************************)
(* SpecNR: next-round requests whose storage calls interleave.  inflight   *)
(* is the bag of the running invocations of the handler, each with its     *)
(* position and its local variables; a step is one awaited storage call of *)
(* one invocation.                                                         *)
(***************************************************************************)
Running == BagToSet(inflight)

\* Replace the invocation r by r2 / drop it.
Advance(r, r2) == (inflight (-) SetToBag({r})) (+) SetToBag({r2})

Finish(r) == inflight (-) SetToBag({r})

\* Invocations that have passed the game-over check and not yet made a round.
Pending ==
    LET waiting == {r \in Running : r.pc \in {"getPlayers", "updateGame",
                                                "createRound"}}
    IN BagCardinality([r \in waiting |-> inflight[r]])

\* const game = await storage.getGame(gameId), and the checks on the result
NRGetGame(gameId) ==
    /\ BagCardinality(inflight) < MaxInflight
    /\ IF ~hasGame(games, gameId)
       THEN /\ resp' = 404
            /\ UNCHANGED inflight
       ELSE LET r == [pc |-> IF GameOver(games[gameId])
                             THEN "markCompleted" ELSE "getPlayers",
                      gameId |-> gameId, game |-> games[gameId],
                      roster |-> <<>>, roundId |-> Null, judgeId |-> Null,
                      i |-> 1]
            IN /\ ~GameOver(games[gameId])
                    => Len(rounds) + Pending < MaxNRRounds
               /\ inflight' = inflight (+) SetToBag({r})
               /\ UNCHANGED resp
    /\ UNCHANGED <<store, now, drawn>>

\* await storage.updateGame(gameId, { status: "completed" }); return 400
NRMarkCompleted(r) ==
    /\ r.pc = "markCompleted"
    /\ games' = updateGameStatus(games, r.gameId, "completed")
    /\ resp' = 400
    /\ inflight' = Finish(r)
    /\ UNCHANGED <<players, rounds, poems, now, drawn>>

\* const players = await storage.getPlayersByGame(gameId), and the count check
NRGetPlayers(r) ==
    /\ r.pc = "getPlayers"
    /\ LET roster == getPlayersByGame(players, r.gameId)
       IN IF Len(roster) < NextRoundMinPlayers
          THEN /\ resp' = 400
               /\ inflight' = Finish(r)
          ELSE /\ inflight' = Advance(r, [r EXCEPT !.pc = "updateGame",
                                                   !.roster = roster])
               /\ UNCHANGED resp
    /\ UNCHANGED <<store, now, drawn>>

\* await storage.updateGame(gameId, { currentRound, currentJudgeIndex })
NRUpdateGame(r) ==
    /\ r.pc = "updateGame"
    /\ games' = updateGameRound(games, r.gameId, NextRoundNumber(r.game),
                                NextJudgeIndex(r.game, Len(r.roster)))
    /\ inflight' = Advance(r, [r EXCEPT !.pc = "createRound"])
    /\ UNCHANGED <<players, rounds, poems, now, drawn, resp>>

\* const newRound = await storage.createRound(...)
NRCreateRound(r, rnd) ==
    /\ r.pc = "createRound"
    /\ LET nextJudgeIndex == NextJudgeIndex(r.game, Len(r.roster))
           nextJudgeId == NextJudgeId(players, r.roster, nextJudgeIndex)
       IN /\ rounds' = createRound(rounds, r.gameId, NextRoundNumber(r.game),
                                   nextJudgeId,
                                   generateRandomWords(WordsPerRound, rnd))
          /\ inflight' = Advance(r, [r EXCEPT !.pc = "createPoems",
                                              !.roundId = Len(rounds) + 1,
                                              !.judgeId = nextJudgeId])
    /\ UNCHANGED <<games, players, poems, now, drawn, resp>>

\* Roster positions from i on that get a poem.
NRWriters(r) ==
    {j \in r.i..Len(r.roster) : NextRoundWrites(players, r.roster[j], r.judgeId)}

\* one await storage.createPoem(...) of the loop
NRCreatePoem(r) ==
    /\ r.pc = "createPoems"
    /\ NRWriters(r) # {}
    /\ LET j == CHOOSE k \in NRWriters(r) : \A m \in NRWriters(r) : k <= m
       IN /\ poems' = createPoem(poems, r.roundId, r.roster[j], r.roster[j])
          /\ inflight' = Advance(r, [r EXCEPT !.i = j + 1])
    /\ UNCHANGED <<games, players, rounds, now, drawn, resp>>

\* await storage.getGameWithPlayers(gameId); return 200
NRRespond(r) ==
    /\ r.pc = "createPoems"
    /\ NRWriters(r) = {}
    /\ resp' = 200
    /\ inflight' = Finish(r)
    /\ UNCHANGED <<store, now, drawn>>

\* Create-game requests under SpecNR name the users 1..n in order.
NRRosterInputs == {[i \in 1..n |-> i] : n \in 1..MaxNRPlayers}

NRCreateGameReq ==
    \E totalRounds \in TotalRoundsInputs, playerIds \in NRRosterInputs,
       rnd \in ZeroStream :
        PostGames(totalRounds, playerIds, rnd, MaxNRPlayers, MaxNRRounds)

NRStart == \E gameId \in 1..(Len(games) + 1) : NRGetGame(gameId)

NextNR ==
    \/ NRCreateGameReq
    \/ NRStart
    \/ \E r \in Running : NRMarkCompleted(r)
    \/ \E r \in Running : NRGetPlayers(r)
    \/ \E r \in Running : NRUpdateGame(r)
    \/ \E r \in Running, rnd \in ZeroStream : NRCreateRound(r, rnd)
    \/ \E r \in Running : NRCreatePoem(r)
    \/ \E r \in Running : NRRespond(r)

SpecNR == Init /\ [][NextNR]_vars

(***************************************************************************)
(* Vocabulary of the properties.                                           *)
(***************************************************************************)
\* Roster size of a game.
RosterSize(gameId) == Len(getPlayersByGame(players, gameId))

\* A status request from -> to that skips a state or leaves completed.
SkipsOrLeavesCompleted(from, to) ==
    \/ from = "completed"
    \/ Rank(to) > Rank(from) + 1

(***************************************************************************)
(* C1: the status of a round never moves backwards in the order            *)
(* setup < writing < judging < completed, whatever request is served.      *)
(***************************************************************************)
C1_StatusNeverRegresses ==
    [][\A r \in DOMAIN rounds :
          Rank(rounds'[r].status) >= Rank(rounds[r].status)]_vars

(***************************************************************************)
(* C2: a status request that skips a state, or that targets a completed    *)
(* round, is rejected with an error and leaves the round's status, endTime *)
(* and winner unchanged.                                                   *)
(***************************************************************************)
C2_IllegalStatusRejected ==
    [][\A r \in DOMAIN rounds, st \in StatusSet :
          (PutRoundStatus(r, st)
              /\ SkipsOrLeavesCompleted(rounds[r].status, st))
          => /\ resp' = 400
             /\ rounds'[r].status = rounds[r].status
             /\ rounds'[r].endTime = rounds[r].endTime
             /\ rounds'[r].winnerId = rounds[r].winnerId]_vars

(***************************************************************************)
(* C3: a round whose status is completed has a winner.                     *)
(***************************************************************************)
C3_CompletedHasWinner ==
    \A r \in DOMAIN rounds :
        rounds[r].status = "completed" => rounds[r].winnerId # Null

(***************************************************************************)
(* C4: selecting a poem of a round as that round's winner raises the score *)
(* of the roster member the poem was created for by exactly 1 and leaves   *)
(* the score of every other player of the game unchanged, in round 1 as in *)
(* later rounds.                                                           *)
(***************************************************************************)
C4_WinnerScoresAuthor ==
    [][\A r \in DOMAIN rounds, p \in DOMAIN poems :
          (PostRoundWinner(r, p) /\ poems[p].roundId = r)
          => \A m \in DOMAIN players :
                players[m].gameId = rounds[r].gameId
                => players'[m].score =
                      players[m].score
                        + (IF m = poems[p].author THEN 1 ELSE 0)]_vars

(***************************************************************************)
(* C5: winner selection repeated for a round that is already completed     *)
(* with the same poem succeeds again and raises the author's score by 1    *)
(* once more (by 2 over the two calls).                                    *)
(***************************************************************************)
C5_RepeatedWinnerScoresAgain ==
    [][\A r \in DOMAIN rounds, p \in DOMAIN poems :
          (/\ PostRoundWinner(r, p)
           /\ poems[p].roundId = r
           /\ rounds[r].status = "completed"
           /\ rounds[r].winnerId = poems[p].playerId)
          => /\ resp' = 200
             /\ players'[poems[p].author].score =
                    players[poems[p].author].score + 1]_vars

C7_JudgeHasNoPoem ==
    \A p \in DOMAIN poems :
        players[poems[p].author].userId # rounds[poems[p].roundId].judgeId

\* A first round and a later round both have poems.
C7_Witness ==
    /\ \E p \in DOMAIN poems : rounds[poems[p].roundId].roundNumber = 1
    /\ \E p \in DOMAIN poems : rounds[poems[p].roundId].roundNumber > 1

(***************************************************************************)
(* C8: a created round has exactly (roster size - 1) poems, each created   *)
(* with empty content and submitted = false, and the set of poems of a     *)
(* round never changes afterwards.                                         *)
(***************************************************************************)
C8_PoemsPerRound ==
    /\ [](\A r \in DOMAIN rounds :
             Cardinality(getPoemsByRound(poems, r))
                = RosterSize(rounds[r].gameId) - 1)
    /\ [][/\ \A p \in DOMAIN poems' \ DOMAIN poems :
                poems'[p].content = "" /\ ~poems'[p].submitted
          /\ \A r \in DOMAIN rounds :
                getPoemsByRound(poems', r) = getPoemsByRound(poems, r)]_vars

(***************************************************************************)
(* C9: a game's currentRound is at least 1 and at most its totalRounds,    *)
(* under any interleaving of next-round requests.                          *)
(***************************************************************************)
C9_CurrentRoundInRange ==
    \A g \in DOMAIN games :
        /\ games[g].currentRound >= 1
        /\ games[g].currentRound <= games[g].totalRounds

\* Two next-round requests for one game are in flight together, both past
\* the game-over check, and one has already advanced the game to its last
\* round.
C9_Witness ==
    \E r, q \in Running :
        /\ r.pc = "createRound"
        /\ q.pc = "updateGame"
        /\ r.gameId = q.gameId
        /\ games[r.gameId].currentRound = games[r.gameId].totalRounds

(***************************************************************************)
(* C10: a next-round request for a game whose currentRound equals          *)
(* totalRounds fails with an error, creates no round and no poem, and      *)
(* leaves currentRound and currentJudgeIndex unchanged.                    *)
(***************************************************************************)
C10_NextRoundAtEndRefused ==
    [][\A g \in DOMAIN games :
          ((\E rnd \in ZeroStream : PostNextRound(g, rnd, MaxRotRounds))
              /\ games[g].currentRound = games[g].totalRounds)
          => /\ resp' = 400
             /\ rounds' = rounds
             /\ poems' = poems
             /\ games'[g].currentRound = games[g].currentRound
             /\ games'[g].currentJudgeIndex
                   = games[g].currentJudgeIndex]_vars

\* A next-round request has been refused for a game that had advanced to
\* its last round.
C10_Witness ==
    \E g \in DOMAIN games :
        /\ games[g].status = "completed"
        /\ games[g].currentRound = games[g].totalRounds
        /\ games[g].currentRound > 1
        /\ resp = 400

(***************************************************************************)
(* C11: a game whose status is completed has currentRound >= totalRounds,  *)
(* and its last round (the round numbered totalRounds) has status          *)
(* completed: a game is never marked completed while its last round is in  *)
(* setup, writing or judging.                                              *)
(***************************************************************************)
C11_CompletedGameLastRoundCompleted ==
    \A g \in DOMAIN games :
        games[g].status = "completed"
        => /\ games[g].currentRound >= games[g].totalRounds
           /\ \A r \in DOMAIN rounds :
                 (rounds[r].gameId = g
                     /\ rounds[r].roundNumber = games[g].totalRounds)
                 => rounds[r].status = "completed"

(***************************************************************************)
(* SpecPoem: the poems of first rounds: game creation, status requests,    *)
(* content updates and submissions, one request at a time.                 *)
(***************************************************************************)
PoemCreateGameReq ==
    \E totalRounds \in TotalRoundsInputs,
       playerIds \in RosterInputs(MaxPoemPlayers), rnd \in ZeroStream :
        PostGames(totalRounds, playerIds, rnd, MaxPoemPlayers, MaxGames)

NextPoem ==
    \/ PoemCreateGameReq
    \/ RoundStatusReq
    \/ UpdatePoemReq
    \/ SubmitPoemReq

SpecPoem == Init /\ [][NextPoem]_vars

\* A text that is empty or consists only of whitespace.
Blank(c) == c \in {"", " "}

(***************************************************************************)
(* C12: a submit request for an unsubmitted poem whose content is empty or *)
(* only whitespace fails with a validation error; the poem stays           *)
(* unsubmitted with no submission time and the status of its round is      *)
(* unchanged.                                                              *)
(***************************************************************************)
C12_BlankSubmitRefused ==
    [][\A p \in DOMAIN poems :
          (/\ PostPoemSubmit(p)
           /\ ~poems[p].submitted
           /\ Blank(poems[p].content))
          => /\ resp' = 400
             /\ ~poems'[p].submitted
             /\ poems'[p].submittedAt = Null
             /\ poems'[p].content = poems[p].content
             /\ rounds'[poems[p].roundId].status
                   = rounds[poems[p].roundId].status]_vars

\* A whitespace-only poem of a round in writing has just been refused.
C12_Witness ==
    \E p \in DOMAIN poems :
        /\ poems[p].content = " "
        /\ ~poems[p].submitted
        /\ rounds[poems[p].roundId].status = "writing"
        /\ resp = 400

(***************************************************************************)
(* C13: once a poem is submitted its content never changes again; a        *)
(* content update for a submitted poem does not alter the content.         *)
(***************************************************************************)
C13_SubmittedContentFrozen ==
    [][\A p \in DOMAIN poems :
          poems[p].submitted => poems'[p].content = poems[p].content]_vars

(***************************************************************************)
(* C14: the content and the submitted flag of a poem change only while the *)
(* poem's round is in writing.                                             *)
(***************************************************************************)
C14_PoemChangesOnlyInWriting ==
    [][\A p \in DOMAIN poems :
          (\/ poems'[p].content # poems[p].content
           \/ poems'[p].submitted # poems[p].submitted)
          => rounds[poems[p].roundId].status = "writing"]_vars

(***************************************************************************)
(* C15: whenever every poem of a round that has poems is submitted (and no *)
(* request is being served), the round is not in writing, whatever order   *)
(* the submissions and the start of writing came in.                       *)
(***************************************************************************)
C15_AllSubmittedLeavesWriting ==
    \A r \in DOMAIN rounds :
        (getPoemsByRound(poems, r) # {} /\ AllSubmitted(poems, r))
        => rounds[r].status # "writing"

(***************************************************************************)
(* SpecClock: first rounds and their status requests while time passes.    *)
(***************************************************************************)
\* Time passes: a later new Date() reads a later time.
Tick ==
    /\ now < MaxClockTime
    /\ now' = now + 1
    /\ UNCHANGED <<store, resp, inflight, drawn>>

NextClock ==
    \/ PoemCreateGameReq
    \/ RoundStatusReq
    \/ Tick

SpecClock == Init /\ [][NextClock]_vars

(***************************************************************************)
(* C16: a round in writing has its endTime set, equal to the time of the   *)
(* request that moved it from setup to writing plus its timeLimit; a round *)
(* in setup that was never started has endTime null.  As a step property:  *)
(* a new round has endTime null, a step that leaves an unstarted round in  *)
(* setup keeps it null, a step that moves a round from setup to writing    *)
(* sets endTime to the current time plus timeLimit, and a step that finds  *)
(* and leaves the round in writing leaves endTime as it was.               *)
(***************************************************************************)
C16_EndTimeIsStartPlusLimit ==
    /\ [](\A r \in DOMAIN rounds :
             rounds[r].status = "writing" => rounds[r].endTime # Null)
    /\ [][\A r \in DOMAIN rounds' :
             IF r \notin DOMAIN rounds
             THEN rounds'[r].endTime = Null
             ELSE /\ (rounds[r].status = "setup"
                         /\ rounds[r].endTime = Null
                         /\ rounds'[r].status = "setup")
                     => rounds'[r].endTime = Null
                  /\ (rounds[r].status = "setup"
                         /\ rounds'[r].status = "writing")
                     => rounds'[r].endTime = now + rounds[r].timeLimit
                  /\ (rounds[r].status = "writing"
                         /\ rounds'[r].status = "writing")
                     => rounds'[r].endTime = rounds[r].endTime]_vars

(***************************************************************************)
(* SpecWords: the words of rounds: game creation and next-round with the   *)
(* random source varied, and status requests on the rounds made.           *)
(***************************************************************************)
WordsCreateGameReq ==
    \E totalRounds \in TotalRoundsInputs, playerIds \in NRRosterInputs,
       rnd \in RandomStreams(1) :
        PostGames(totalRounds, playerIds, rnd, MaxNRPlayers, MaxWordRounds)

WordsNextRoundReq ==
    \E gameId \in 1..(Len(games) + 1), rnd \in RandomStreams(1) :
        PostNextRound(gameId, rnd, MaxWordRounds)

NextWords ==
    \/ WordsCreateGameReq
    \/ WordsNextRoundReq
    \/ RoundStatusReq

SpecWords == Init /\ [][NextWords]_vars

\* The elements of a sequence are pairwise distinct.
Distinct(s) == \A i, j \in 1..Len(s) : s[i] = s[j] => i = j

(***************************************************************************)
(* C17: every round, the first of a game and every round made by           *)
(* next-round alike, has exactly five words, pairwise distinct and all     *)
(* from the pool, and the words of a round never change after creation.    *)
(***************************************************************************)
C17_RoundWords ==
    /\ [](\A r \in DOMAIN rounds :
             /\ Len(rounds[r].words) = 5
             /\ Distinct(rounds[r].words)
             /\ \A i \in 1..Len(rounds[r].words) :
                   rounds[r].words[i] \in PoolWords)
    /\ [][\A r \in DOMAIN rounds : rounds'[r].words = rounds[r].words]_vars

\* A first round and a round made by next-round have been given different
\* words, and the first round has since left setup.
C17_Witness ==
    \E r, q \in DOMAIN rounds :
        /\ rounds[r].roundNumber = 1
        /\ rounds[q].roundNumber > 1
        /\ rounds[r].gameId = rounds[q].gameId
        /\ rounds[r].words # rounds[q].words
        /\ rounds[r].status # "setup"

(***************************************************************************)
(* SpecDraw: one call of the word generator, for each count and each       *)
(* random stream, followed iteration by iteration; drawn holds the         *)
(* arguments and the locals of the call.                                   *)
(***************************************************************************)
InitDraw ==
    /\ games = <<>>
    /\ players = <<>>
    /\ rounds = <<>>
    /\ poems = <<>>
    /\ now = 1
    /\ resp = Null
    /\ inflight = EmptyBag
    /\ drawn \in {[count |-> count, rnd |-> rnd, done |-> FALSE,
                   st |-> LoopEntry] :
                     count \in CountInputs, rnd \in RandomStreams(RandLen)}

\* One iteration of the loop of the call.
DrawIterate ==
    /\ ~drawn.done
    /\ ~LoopDone(drawn.st.i, drawn.count, drawn.st.availableWords)
    /\ drawn' = [drawn EXCEPT !.st = LoopBody(drawn.st, drawn.rnd)]
    /\ UNCHANGED <<store, now, resp, inflight>>

\* The loop has ended: return result.
DrawReturn ==
    /\ ~drawn.done
    /\ LoopDone(drawn.st.i, drawn.count, drawn.st.availableWords)
    /\ drawn' = [drawn EXCEPT !.done = TRUE]
    /\ UNCHANGED <<store, now, resp, inflight>>

NextDraw ==
    \/ DrawIterate
    \/ DrawReturn

SpecDraw == InitDraw /\ [][NextDraw]_vars

\* The smaller of two numbers.
Min(a, b) == IF a <= b THEN a ELSE b

(***************************************************************************)
(* C18: for every integer count >= 0, generateRandomWords(count) returns   *)
(* exactly min(count, pool size) words, all from the pool and no word      *)
(* twice; in particular a count above the pool size raises no error and    *)
(* returns every pool word exactly once.                                   *)
(***************************************************************************)
C18_DrawCount ==
    drawn.done
    => LET words == drawn.st.result
       IN /\ Len(words) = Min(drawn.count, Len(poeticWords))
          /\ Distinct(words)
          /\ {words[i] : i \in 1..Len(words)} \subseteq PoolWords
          /\ drawn.count >= Len(poeticWords)
             => {words[i] : i \in 1..Len(words)} = PoolWords

\* A call asking for more words than the pool holds has returned.
C18_Witness ==
    /\ drawn.done
    /\ drawn.count > Len(poeticWords)
    /\ Len(drawn.st.result) = Len(poeticWords)

(***************************************************************************)
(* SpecJoin: POST /games at the granularity of its awaited storage calls,  *)
(* interleaved with next-round requests (the steps of SpecNR).  A game     *)
(* exists from the first call of its creation on; its roster and its first *)
(* round follow one call at a time.                                        *)
(***************************************************************************)
\* safeParse, and const game = await storage.createGame(...)
CGCreateGame(totalRounds, playerIds) ==
    /\ Len(games) < MaxGames
    /\ Len(players) + Len(playerIds) <= MaxNRPlayers
    /\ Len(rounds) + Pending < MaxJoinRounds
    /\ BagCardinality(inflight) < MaxInflight
    /\ IF ~ValidCreateGame(totalRounds, playerIds)
       THEN /\ resp' = 400
            /\ UNCHANGED <<games, inflight>>
       ELSE LET created == createGame(games, totalRounds, playerIds[1])
                r == [pc |-> "addPlayers", gameId |-> Len(created),
                      game |-> created[Len(created)], roster |-> playerIds,
                      roundId |-> Null, judgeId |-> playerIds[1], i |-> 1]
            IN /\ games' = created
               /\ inflight' = inflight (+) SetToBag({r})
               /\ UNCHANGED resp
    /\ UNCHANGED <<players, rounds, poems, now, drawn>>

\* one await storage.addPlayerToGame(...) of the loop
CGAddPlayer(r) ==
    /\ r.pc = "addPlayers"
    /\ players' = addPlayerToGame(players, r.gameId, r.roster[r.i], r.i = 1)
    /\ inflight' = Advance(r, [r EXCEPT !.i = r.i + 1,
                                        !.pc = IF r.i = Len(r.roster)
                                               THEN "firstRound"
                                               ELSE "addPlayers"])
    /\ UNCHANGED <<games, rounds, poems, now, resp, drawn>>

\* const round = await storage.createRound(...)
CGCreateRound(r, rnd) ==
    /\ r.pc = "firstRound"
    /\ rounds' = createRound(rounds, r.gameId, 1, r.judgeId,
                             generateRandomWords(WordsPerRound, rnd))
    /\ inflight' = Advance(r, [r EXCEPT !.pc = "firstPoems",
                                        !.roundId = Len(rounds) + 1,
                                        !.i = 1])
    /\ UNCHANGED <<games, players, poems, now, resp, drawn>>

\* Positions of playerIds from i on that get a poem.
CGWriters(r) ==
    {j \in r.i..Len(r.roster) : FirstRoundWrites(r.roster[j], r.judgeId)}

\* one await storage.createPoem(...) of the loop
CGCreatePoem(r) ==
    /\ r.pc = "firstPoems"
    /\ CGWriters(r) # {}
    /\ LET j == CHOOSE k \in CGWriters(r) : \A m \in CGWriters(r) : k <= m
       IN /\ poems' = createPoem(poems, r.roundId, r.roster[j],
                                 getPlayersByGame(players, r.gameId)[j])
          /\ inflight' = Advance(r, [r EXCEPT !.i = j + 1])
    /\ UNCHANGED <<games, players, rounds, now, resp, drawn>>

\* await storage.getGameWithPlayers(game.id); return 201
CGRespond(r) ==
    /\ r.pc = "firstPoems"
    /\ CGWriters(r) = {}
    /\ resp' = 201
    /\ inflight' = Finish(r)
    /\ UNCHANGED <<store, now, drawn>>

JoinCreateGameReq ==
    \E totalRounds \in TotalRoundsInputs, playerIds \in NRRosterInputs :
        CGCreateGame(totalRounds, playerIds)

NextJoin ==
    \/ JoinCreateGameReq
    \/ \E r \in Running : CGAddPlayer(r)
    \/ \E r \in Running, rnd \in ZeroStream : CGCreateRound(r, rnd)
    \/ \E r \in Running : CGCreatePoem(r)
    \/ \E r \in Running : CGRespond(r)
    \/ NRStart
    \/ \E r \in Running : NRMarkCompleted(r)
    \/ \E r \in Running : NRGetPlayers(r)
    \/ \E r \in Running : NRUpdateGame(r)
    \/ \E r \in Running, rnd \in ZeroStream : NRCreateRound(r, rnd)
    \/ \E r \in Running : NRCreatePoem(r)
    \/ \E r \in Running : NRRespond(r)

SpecJoin == Init /\ [][NextJoin]_vars

(***************************************************************************)
(* C19: a next-round request for a game whose roster has fewer than two    *)
(* members fails with a validation error and changes nothing: no round and *)
(* no poem is created, and the game's currentRound, currentJudgeIndex and  *)
(* status are unchanged.  The steps of a next-round invocation that can    *)
(* find such a roster are the one answering for a finished game and the    *)
(* one reading the roster.                                                 *)
(***************************************************************************)
C19_TooFewPlayersRefused ==
    [][\A r \in Running :
          ((NRMarkCompleted(r) \/ NRGetPlayers(r))
              /\ RosterSize(r.gameId) < 2)
          => /\ resp' = 400
             /\ rounds' = rounds
             /\ poems' = poems
             /\ games'[r.gameId].currentRound = games[r.gameId].currentRound
             /\ games'[r.gameId].currentJudgeIndex
                   = games[r.gameId].currentJudgeIndex
             /\ games'[r.gameId].status = games[r.gameId].status]_vars

(***************************************************************************)
(* C20: when a game is over (its currentRound has reached totalRounds and  *)
(* its last round is completed), every member of its roster has been the   *)
(* judge of at least one of its rounds and a writer (had a poem) in at     *)
(* least one of its rounds.                                                *)
(***************************************************************************)
C20_EveryoneJudgedAndWrote ==
    \A g \in DOMAIN games :
        (/\ games[g].currentRound = games[g].totalRounds
         /\ \E r \in DOMAIN rounds :
               /\ rounds[r].gameId = g
               /\ rounds[r].roundNumber = games[g].totalRounds
               /\ rounds[r].status = "completed")
        => \A m \in DOMAIN players :
              players[m].gameId = g
              => /\ \E r \in DOMAIN rounds :
                       /\ rounds[r].gameId = g
                       /\ rounds[r].judgeId = players[m].userId
                 /\ \E p \in DOMAIN poems :
                       /\ rounds[poems[p].roundId].gameId = g
                       /\ poems[p].author = m

(***************************************************************************)
(* SpecWin: winner-selection requests whose storage calls interleave, over *)
(* the database storage (the exported storage), whose updatePlayerScore is *)
(* a select followed by an update.  The invocations in flight have the     *)
(* fields pc, roundId, poemId, winnerId and score (the score read).        *)
(***************************************************************************)
\* DatabaseStorage.updatePlayerScore: player?.score || 0 of the select
dbSelectScore(ps, playerId) ==
    IF playerId \in DOMAIN ps THEN ps[playerId].score ELSE 0

\* DatabaseStorage.updatePlayerScore: update ... set score = newScore
dbUpdateScore(ps, playerId, newScore) ==
    IF playerId \in DOMAIN ps
    THEN [ps EXCEPT ![playerId].score = newScore]
    ELSE ps

\* const poem = await storage.getPoem(poemId), and the check on the result
WGetPoem(roundId, poemId) ==
    /\ BagCardinality(inflight) < MaxInflight
    /\ IF ~hasPoem(poems, poemId)
       THEN /\ resp' = 404
            /\ UNCHANGED inflight
       ELSE /\ inflight' = inflight (+) SetToBag({
                   [pc |-> "getRound", roundId |-> roundId,
                    poemId |-> poemId, winnerId |-> poems[poemId].playerId,
                    score |-> 0]})
            /\ UNCHANGED resp
    /\ UNCHANGED <<store, now, drawn>>

\* const round = await storage.getRound(roundId), and the check on the result
WGetRound(w) ==
    /\ w.pc = "getRound"
    /\ IF ~hasRound(rounds, w.roundId)
       THEN /\ resp' = 404
            /\ inflight' = Finish(w)
       ELSE /\ inflight' = Advance(w, [w EXCEPT !.pc = "setWinner"])
            /\ UNCHANGED resp
    /\ UNCHANGED <<store, now, drawn>>

\* await storage.setRoundWinner(roundId, winnerId)
WSetWinner(w) ==
    /\ w.pc = "setWinner"
    /\ rounds' = setRoundWinner(rounds, w.roundId, w.winnerId)
    /\ inflight' = Advance(w, [w EXCEPT !.pc = "selectScore"])
    /\ UNCHANGED <<games, players, poems, now, resp, drawn>>

\* updatePlayerScore: the awaited select of the player's score
WSelectScore(w) ==
    /\ w.pc = "selectScore"
    /\ dbSelectScore(players, w.winnerId) < MaxScore
    /\ inflight' = Advance(w, [w EXCEPT
                       !.pc = "updateScore",
                       !.score = dbSelectScore(players, w.winnerId)])
    /\ UNCHANGED <<store, now, resp, drawn>>

\* updatePlayerScore: the awaited update with currentScore + scoreIncrement
WUpdateScore(w) ==
    /\ w.pc = "updateScore"
    /\ players' = dbUpdateScore(players, w.winnerId, w.score + 1)
    /\ inflight' = Advance(w, [w EXCEPT !.pc = "respond"])
    /\ UNCHANGED <<games, rounds, poems, now, resp, drawn>>

\* await storage.getGameWithPlayers(round.gameId); return 200
WRespond(w) ==
    /\ w.pc = "respond"
    /\ resp' = 200
    /\ inflight' = Finish(w)
    /\ UNCHANGED <<store, now, drawn>>

WStart ==
    \E roundId \in 1..(Len(rounds) + 1), poemId \in 1..(Len(poems) + 1) :
        WGetPoem(roundId, poemId)

NextWin ==
    \/ NRCreateGameReq
    \/ WStart
    \/ \E w \in Running : WGetRound(w)
    \/ \E w \in Running : WSetWinner(w)
    \/ \E w \in Running : WSelectScore(w)
    \/ \E w \in Running : WUpdateScore(w)
    \/ \E w \in Running : WRespond(w)

SpecWin == Init /\ [][NextWin]_vars

(***************************************************************************)
(* C21: every player's score starts at 0, is never negative and never      *)
(* decreases; it changes only by steps of +1, made by winner selection,    *)
(* and no other operation changes a score.                                 *)
(***************************************************************************)
C21_ScoreOnlyGrowsByOne ==
    /\ [](\A m \in DOMAIN players : players[m].score >= 0)
    /\ [][\A m \in DOMAIN players' :
             IF m \notin DOMAIN players
             THEN players'[m].score = 0
             ELSE \/ players'[m].score = players[m].score
                  \/ /\ players'[m].score = players[m].score + 1
                     /\ \E w \in Running : WUpdateScore(w)]_vars

(***************************************************************************)
(* C22: at most one round of a game has a status other than completed (a   *)
(* next-round request creates a round only when the game's current round   *)
(* is completed).                                                          *)
(***************************************************************************)
C22_OneUnfinishedRound ==
    \A r, q \in DOMAIN rounds :
        (/\ rounds[r].gameId = rounds[q].gameId
         /\ rounds[r].status # "completed"
         /\ rounds[q].status # "completed")
        => r = q

(***************************************************************************)
(* C23: under any interleaving of next-round requests for one game, no two *)
(* rounds of the game have the same round number, and the rounds of a game *)
(* are numbered 1..k without gaps, once the requests have finished.        *)
(***************************************************************************)
C23_RoundNumbersUnique ==
    inflight = EmptyBag
    => \A g \in DOMAIN games :
          LET mine == {r \in DOMAIN rounds : rounds[r].gameId = g}
          IN /\ \A r, q \in mine :
                   rounds[r].roundNumber = rounds[q].roundNumber => r = q
             /\ {rounds[r].roundNumber : r \in mine} = 1..Cardinality(mine)

(***************************************************************************)
(* Requests as sent by an actor.  The requests carry no identity and the   *)
(* handlers read none, so the actor does not appear on the right.          *)
(***************************************************************************)
StatusRequestBy(actor, roundId, status) == PutRoundStatus(roundId, status)

WinnerRequestBy(actor, roundId, poemId) == PostRoundWinner(roundId, poemId)

(***************************************************************************)
(* C24: only the judge of a round can move it from setup to writing or     *)
(* from judging to completed: such a request by any other actor fails as   *)
(* not authorized and changes neither the round nor any score.             *)
(***************************************************************************)
C24_OnlyJudgeDrives ==
    [][\A actor \in UserIds, r \in DOMAIN rounds :
          (/\ actor # rounds[r].judgeId
           /\ \/ /\ rounds[r].status = "setup"
                 /\ StatusRequestBy(actor, r, "writing")
              \/ /\ rounds[r].status = "judging"
                 /\ \/ StatusRequestBy(actor, r, "completed")
                    \/ \E p \in DOMAIN poems : WinnerRequestBy(actor, r, p))
          => /\ resp' \in {401, 403}
             /\ rounds' = rounds
             /\ players' = players]_vars

(***************************************************************************)
(* C25: whenever a round has a winner, the winner is the player of a poem  *)
(* that belongs to that same round and is submitted.                       *)
(***************************************************************************)
C25_WinnerWroteSubmittedPoem ==
    \A r \in DOMAIN rounds :
        rounds[r].winnerId # Null
        => \E p \in getPoemsByRound(poems, r) :
              /\ poems[p].submitted
              /\ poems[p].playerId = rounds[r].winnerId

(***************************************************************************)
(* C26: a winner-selection request for a round in setup or writing fails   *)
(* with an invalid-transition error: the round does not become completed,  *)
(* no winner is recorded and no score changes.                             *)
(***************************************************************************)
C26_EarlyWinnerRefused ==
    [][\A r \in DOMAIN rounds, p \in DOMAIN poems :
          (PostRoundWinner(r, p) /\ rounds[r].status \in {"setup", "writing"})
          => /\ resp' = 400
             /\ rounds'[r].status = rounds[r].status
             /\ rounds'[r].winnerId = rounds[r].winnerId
             /\ players' = players]_vars

(***************************************************************************)
(* SpecNotFound: requests that name ids the store may not hold.  Games are *)
(* created and advanced and rounds change status, with known or unknown    *)
(* ids; content updates, submissions and winner selections name a poem or  *)
(* a round the store does not hold.                                        *)
(***************************************************************************)
MaxNotFoundRounds == 2

NotFoundCreateGameReq ==
    \E totalRounds \in TotalRoundsInputs, playerIds \in NRRosterInputs,
       rnd \in ZeroStream :
        PostGames(totalRounds, playerIds, rnd, MaxNRPlayers,
                  MaxNotFoundRounds)

NotFoundNextRoundReq ==
    \E gameId \in 1..(Len(games) + 1), rnd \in ZeroStream :
        PostNextRound(gameId, rnd, MaxNotFoundRounds)

UnknownPoemUpdateReq ==
    \E content \in Contents : PutPoem(Len(poems) + 1, content)

UnknownPoemSubmitReq == PostPoemSubmit(Len(poems) + 1)

UnknownWinnerReq ==
    \E roundId \in 1..(Len(rounds) + 1), poemId \in 1..(Len(poems) + 1) :
        /\ roundId \notin DOMAIN rounds \/ poemId \notin DOMAIN poems
        /\ PostRoundWinner(roundId, poemId)

NextNotFound ==
    \/ NotFoundCreateGameReq
    \/ NotFoundNextRoundReq
    \/ RoundStatusReq
    \/ UnknownWinnerReq
    \/ UnknownPoemUpdateReq
    \/ UnknownPoemSubmitReq

SpecNotFound == Init /\ [][NextNotFound]_vars

(***************************************************************************)
(* C27: a request naming an unknown id answers not-found and changes no    *)
(* state: a status change of an unknown round, a content update or a       *)
(* submission of an unknown poem, next-round of an unknown game, and a     *)
(* winner selection where the poem or the round is unknown.                *)
(***************************************************************************)
C27_UnknownIdNotFound ==
    [][/\ \A r \in 1..(Len(rounds) + 1), s \in StatusSet :
            (r \notin DOMAIN rounds /\ PutRoundStatus(r, s))
            => (resp' = 404 /\ UNCHANGED store)
       /\ \A p \in 1..(Len(poems) + 1), c \in Contents :
            (p \notin DOMAIN poems /\ PutPoem(p, c))
            => (resp' = 404 /\ UNCHANGED store)
       /\ \A p \in 1..(Len(poems) + 1) :
            (p \notin DOMAIN poems /\ PostPoemSubmit(p))
            => (resp' = 404 /\ UNCHANGED store)
       /\ \A g \in 1..(Len(games) + 1), rnd \in ZeroStream :
            (g \notin DOMAIN games
             /\ PostNextRound(g, rnd, MaxNotFoundRounds))
            => (resp' = 404 /\ UNCHANGED store)
       /\ \A r \in 1..(Len(rounds) + 1), p \in 1..(Len(poems) + 1) :
            ((r \notin DOMAIN rounds \/ p \notin DOMAIN poems)
             /\ PostRoundWinner(r, p))
            => (resp' = 404 /\ UNCHANGED store)]_vars

\* A request was answered not-found while the store holds a game with two
\* rounds, the first of them in judging, and poems.
C27_Witness ==
    /\ resp = 404
    /\ poems # <<>>
    /\ Len(rounds) = 2
    /\ rounds[1].status = "judging"

(***************************************************************************)
(* SpecCreate: create-game requests whose totalRounds and playerIds lie at *)
(* and just outside the limits of the schema, followed by next-round and   *)
(* winner-selection requests.                                              *)
(***************************************************************************)
MaxCreateRounds == 2

\* totalRounds at and just outside the limits of the schema.
CreateTotalRoundsInputs ==
    {MinTotalRounds - 1, MinTotalRounds,
     MaxTotalRoundsAllowed, MaxTotalRoundsAllowed + 1}

\* playerIds naming the users 1..n in order.
CreateRosterInputs ==
    {[i \in 1..n |-> i] : n \in (MinPlayers - 1)..(MaxPlayers + 1)}

CreatePlayerCap == MaxPlayers + 1

AnyCreateGameReq ==
    \E totalRounds \in CreateTotalRoundsInputs,
       playerIds \in CreateRosterInputs, rnd \in ZeroStream :
        PostGames(totalRounds, playerIds, rnd, CreatePlayerCap,
                  MaxCreateRounds)

CreateNextRoundReq ==
    \E gameId \in 1..(Len(games) + 1), rnd \in ZeroStream :
        PostNextRound(gameId, rnd, MaxCreateRounds)

\* Winner selections name the first round and the first poem.
CreateWinnerReq == PostRoundWinner(1, 1)

NextCreate ==
    \/ AnyCreateGameReq
    \/ CreateNextRoundReq
    \/ CreateWinnerReq

SpecCreate == Init /\ [][NextCreate]_vars

\* The users of a game's roster, in roster order.
RosterUsers(ps, gameId) ==
    [i \in DOMAIN getPlayersByGame(ps, gameId) |->
        ps[getPlayersByGame(ps, gameId)[i]].userId]

C29_PoemKeyedByPlayerRow ==
    \A r \in DOMAIN rounds :
        Distinct(RosterUsers(players, rounds[r].gameId))
        => \A m \in DOMAIN players :
              (/\ players[m].gameId = rounds[r].gameId
               /\ players[m].userId # rounds[r].judgeId)
              => Cardinality({p \in getPoemsByRound(poems, r) :
                                 poems[p].playerId = m}) = 1

(***************************************************************************)
(* SpecFrame: two games side by side: create-game requests and winner      *)
(* selections, one request at a time.                                      *)
(***************************************************************************)
MaxFramePlayers == 4

MaxFrameRounds == 2

FrameCreateGameReq ==
    \E totalRounds \in TotalRoundsInputs, playerIds \in NRRosterInputs,
       rnd \in ZeroStream :
        PostGames(totalRounds, playerIds, rnd, MaxFramePlayers,
                  MaxFrameRounds)

NextFrame ==
    \/ FrameCreateGameReq
    \/ SelectWinnerReq

SpecFrame == Init /\ [][NextFrame]_vars

(***************************************************************************)
(* C30: a winner selection addressed to a round of game G, naming any poem *)
(* whose playerId is the player row of its writer, changes no score of a   *)
(* player outside the roster of G and no round of another game.            *)
(***************************************************************************)
C30_WinnerStaysInGame ==
    [][\A r \in DOMAIN rounds, p \in DOMAIN poems :
          (PostRoundWinner(r, p) /\ poems[p].playerId = poems[p].author)
          => /\ \A m \in DOMAIN players :
                   players[m].gameId # rounds[r].gameId
                   => players'[m].score = players[m].score
             /\ \A q \in DOMAIN rounds :
                   rounds[q].gameId # rounds[r].gameId
                   => rounds'[q] = rounds[q]]_vars

(***************************************************************************)
(* C33: under any interleaving of winner-selection requests against the    *)
(* database storage, the score update of every request raises the score of *)
(* the poem's player by exactly 1 (no increment is lost).                  *)
(***************************************************************************)
C33_NoLostIncrement ==
    [][\A w \in Running :
          (WUpdateScore(w) /\ w.winnerId \in DOMAIN players)
          => players'[w.winnerId].score = players[w.winnerId].score + 1]_vars

(***************************************************************************)
(* SpecSubmit: submit requests whose storage calls interleave with each    *)
(* other and with content updates.  The invocations in flight have the     *)
(* fields pc, poemId, roundId (of the poem read), status (of the round     *)
(* read) and all (the result of the all-submitted check).                  *)
(***************************************************************************)
MaxSubmitPlayers == 3

\* const poem = await storage.getPoem(poemId), and the checks on the result
SGetPoem(poemId) ==
    /\ BagCardinality(inflight) < MaxInflight
    /\ IF ~hasPoem(poems, poemId)
       THEN /\ resp' = 404
            /\ UNCHANGED inflight
       ELSE IF Trim(poems[poemId].content) = ""
       THEN /\ resp' = 400
            /\ UNCHANGED inflight
       ELSE /\ inflight' = inflight (+) SetToBag({
                   [pc |-> "submitPoem", poemId |-> poemId,
                    roundId |-> poems[poemId].roundId, status |-> "",
                    all |-> FALSE]})
            /\ UNCHANGED resp
    /\ UNCHANGED <<store, now, drawn>>

\* const updatedPoem = await storage.submitPoem(poemId)
SSubmitPoem(s) ==
    /\ s.pc = "submitPoem"
    /\ poems' = submitPoem(poems, s.poemId, now)
    /\ inflight' = Advance(s, [s EXCEPT !.pc = "getRound"])
    /\ UNCHANGED <<games, players, rounds, now, resp, drawn>>

\* const round = await storage.getRound(poem.roundId); if (round) ...
SGetRound(s) ==
    /\ s.pc = "getRound"
    /\ inflight' =
          Advance(s, IF hasRound(rounds, s.roundId)
                     THEN [s EXCEPT !.pc = "getPoems",
                                    !.status = rounds[s.roundId].status]
                     ELSE [s EXCEPT !.pc = "respond"])
    /\ UNCHANGED <<store, now, resp, drawn>>

\* const poems = await storage.getPoemsByRound(round.id);
\* if (allSubmitted && round.status === "writing") ...
SGetPoems(s) ==
    /\ s.pc = "getPoems"
    /\ LET allSubmitted == AllSubmitted(poems, s.roundId)
       IN inflight' =
             Advance(s, [s EXCEPT
                 !.all = allSubmitted,
                 !.pc = IF allSubmitted /\ s.status = "writing"
                        THEN "updateStatus" ELSE "respond"])
    /\ UNCHANGED <<store, now, resp, drawn>>

\* Variant of SUpdateStatus without the storage call.
SUpdateStatusSkipped(s) ==
    /\ s.pc = "updateStatus"
    /\ inflight' = Advance(s, [s EXCEPT !.pc = "respond"])
    /\ UNCHANGED <<store, now, resp, drawn>>

\* await storage.updateRoundStatus(round.id, "judging")
SUpdateStatus(s) ==
    /\ s.pc = "updateStatus"
    /\ rounds' = updateRoundStatus(rounds, s.roundId, "judging")
    /\ inflight' = Advance(s, [s EXCEPT !.pc = "respond"])
    /\ UNCHANGED <<games, players, poems, now, resp, drawn>>

\* return res.status(200).json(updatedPoem)
SRespond(s) ==
    /\ s.pc = "respond"
    /\ resp' = 200
    /\ inflight' = Finish(s)
    /\ UNCHANGED <<store, now, drawn>>

\* Create-game requests under SpecSubmit name the users 1..n in order.
SubmitRosterInputs == {[i \in 1..n |-> i] : n \in 1..MaxSubmitPlayers}

SubmitCreateGameReq ==
    \E totalRounds \in TotalRoundsInputs, playerIds \in SubmitRosterInputs,
       rnd \in ZeroStream :
        PostGames(totalRounds, playerIds, rnd, MaxSubmitPlayers, MaxGames)

\* The judge starts the writing phase of a round in setup.
StartWritingReq ==
    \E roundId \in DOMAIN rounds :
        /\ rounds[roundId].status = "setup"
        /\ PutRoundStatus(roundId, "writing")

\* A writer saves the text of a poem that is not submitted.
DraftUpdateReq ==
    \E poemId \in DOMAIN poems, content \in Contents :
        /\ ~poems[poemId].submitted
        /\ PutPoem(poemId, content)

\* A writer submits a poem of a round in writing.
WritingSubmitReq ==
    \E poemId \in 1..(Len(poems) + 1) :
        /\ poemId \in DOMAIN poems
              => /\ ~poems[poemId].submitted
                 /\ rounds[poems[poemId].roundId].status = "writing"
        /\ SGetPoem(poemId)

NextSubmit ==
    \/ SubmitCreateGameReq
    \/ StartWritingReq
    \/ DraftUpdateReq
    \/ WritingSubmitReq
    \/ \E s \in Running : SSubmitPoem(s)
    \/ \E s \in Running : SGetRound(s)
    \/ \E s \in Running : SGetPoems(s)
    \/ \E s \in Running : SUpdateStatus(s)
    \/ \E s \in Running : SRespond(s)

SpecSubmit == Init /\ [][NextSubmit]_vars

(***************************************************************************)
(* C31: when the poems of a round in writing are submitted by concurrent   *)
(* requests, then under every interleaving of their storage steps the      *)
(* round has left writing once the requests have finished: a round whose   *)
(* poems are all submitted is not in writing when no request is running.   *)
(***************************************************************************)
C31_AutoTransitionNotLost ==
    \A r \in DOMAIN rounds :
        (/\ inflight = EmptyBag
         /\ getPoemsByRound(poems, r) # {}
         /\ AllSubmitted(poems, r))
        => rounds[r].status = "judging"

\* Two submissions of the two poems of a round overlapped: one request
\* still in flight made its all-submitted check before the other poem was
\* submitted and will not move the round; the other request has moved it.
C31_Witness ==
    \E s \in Running :
        /\ s.pc = "respond"
        /\ s.status = "writing"
        /\ ~s.all
        /\ Cardinality(getPoemsByRound(poems, s.roundId)) = 2
        /\ AllSubmitted(poems, s.roundId)
        /\ rounds[s.roundId].status = "judging"

(***************************************************************************)
(* C35: in every reachable state, under any interleaving of content-update *)
(* and submit requests for the same poem, every submitted poem has content *)
(* that is not blank.                                                      *)
(***************************************************************************)
C35_SubmittedNotBlank ==
    \A p \in DOMAIN poems : poems[p].submitted => ~Blank(poems[p].content)

(***************************************************************************)
(* SpecStale: SpecSubmit together with the judge's legal forward requests: *)
(* the manual move from writing to judging and the selection of a          *)
(* submitted poem of a round in judging, each run to completion between    *)
(* the storage steps of the submit requests.                               *)
(***************************************************************************)
ManualJudgingReq ==
    \E roundId \in DOMAIN rounds :
        /\ rounds[roundId].status = "writing"
        /\ PutRoundStatus(roundId, "judging")

JudgingWinnerReq ==
    \E roundId \in DOMAIN rounds, poemId \in DOMAIN poems :
        /\ rounds[roundId].status = "judging"
        /\ poems[poemId].roundId = roundId
        /\ poems[poemId].submitted
        /\ PostRoundWinner(roundId, poemId)

NextStale ==
    \/ NextSubmit
    \/ ManualJudgingReq
    \/ JudgingWinnerReq

SpecStale == Init /\ [][NextStale]_vars

(***************************************************************************)
(* C32: when every explicit status request is a legal forward step, a      *)
(* submit request whose all-submitted check interleaves with the judge's   *)
(* move to judging and winner selection never moves a completed round      *)
(* back: a completed round stays completed.                                *)
(***************************************************************************)
C32_CompletedNotOverwritten ==
    [][\A r \in DOMAIN rounds :
          rounds[r].status = "completed"
          => rounds'[r].status = "completed"]_vars

(***************************************************************************)
(* C34: once the endTime of a round has been set by entering writing, a    *)
(* repeated request to set the status to writing, sent while the round is  *)
(* in writing, judging or completed, does not move the deadline.           *)
(***************************************************************************)
C34_DeadlineNotMoved ==
    [][\A r \in DOMAIN rounds :
          (/\ rounds[r].endTime # Null
           /\ rounds[r].status \in {"writing", "judging", "completed"}
           /\ PutRoundStatus(r, "writing"))
          => rounds'[r].endTime = rounds[r].endTime]_vars

(***************************************************************************)
(* SpecView: the game page.  Games are created and advanced, winners are   *)
(* selected, and GET /games/:id fetches the payload from which the page    *)
(* chooses what to render.  JavaScript values of the payload are records   *)
(* of a kind and a value (for an object, the id of the row it was made     *)
(* from).                                                                  *)
(***************************************************************************)
MaxViewRounds == 2

JsNumber(n) == [kind |-> "number", value |-> n]

JsObject(id) == [kind |-> "object", value |-> id]

JsUndefined == [kind |-> "undefined", value |-> Null]

\* a === b: values of different types are never strictly equal.
StrictEquals(a, b) == a.kind = b.kind /\ a.value = b.value

\* The first round of the game whose roundNumber is game.currentRound, or
\* Null when there is none.
getCurrentRound(gs, rs, gameId) ==
    LET found == {r \in DOMAIN rs :
                     /\ rs[r].gameId = gameId
                     /\ rs[r].roundNumber = gs[gameId].currentRound}
    IN IF found = {} THEN Null
       ELSE CHOOSE r \in found : \A q \in found : r <= q

\* { ...game, players, currentRound: roundWithPoems }: the round object
\* takes the place of the number game.currentRound.  roundStatus is the
\* status field of that object.
getGameWithPlayers(gs, rs, gameId) ==
    LET currentRound == getCurrentRound(gs, rs, gameId)
    IN [totalRounds |-> JsNumber(gs[gameId].totalRounds),
        currentRound |-> IF currentRound = Null THEN JsUndefined
                         ELSE JsObject(currentRound),
        roundStatus |-> IF currentRound = Null THEN ""
                        ELSE rs[currentRound].status]

\* const isLastRound = game.currentRound === game.totalRounds
isLastRound(game) == StrictEquals(game.currentRound, game.totalRounds)

\* What the page shows for the payload; for a completed round ResultsPhase
\* shows "Game Completed!" when isLastRound and the Next Round button
\* otherwise.
renderGamePhase(game) ==
    IF game.currentRound.kind = "undefined" THEN "No active round"
    ELSE IF game.roundStatus = "setup" THEN "SetupPhase"
    ELSE IF game.roundStatus = "writing" THEN "WritingPhase"
    ELSE IF game.roundStatus = "judging" THEN "JudgingPhase"
    ELSE IF isLastRound(game) THEN "Game Completed!"
    ELSE "Next Round"

\* GET /games/:id
GetGame(gameId) ==
    /\ resp' = IF hasGame(games, gameId) THEN 200 ELSE 404
    /\ UNCHANGED <<store, now, drawn, inflight>>

ViewCreateGameReq ==
    \E totalRounds \in TotalRoundsInputs, playerIds \in NRRosterInputs,
       rnd \in ZeroStream :
        PostGames(totalRounds, playerIds, rnd, MaxNRPlayers, MaxViewRounds)

ViewNextRoundReq ==
    \E gameId \in 1..(Len(games) + 1), rnd \in ZeroStream :
        PostNextRound(gameId, rnd, MaxViewRounds)

GetGameReq == \E gameId \in 1..(Len(games) + 1) : GetGame(gameId)

NextView ==
    \/ ViewCreateGameReq
    \/ ViewNextRoundReq
    \/ SelectWinnerReq
    \/ GetGameReq

SpecView == Init /\ [][NextView]_vars

(***************************************************************************)
(* C36: when the page is rendered from the payload of a game whose current *)
(* round is completed, it shows the game as completed, with no Next Round  *)
(* action, if the round's number equals totalRounds, and it offers Next    *)
(* Round if the round's number is below totalRounds.                       *)
(***************************************************************************)
C36_LastRoundShowsGameOver ==
    [][\A g \in DOMAIN games :
          (/\ GetGame(g)
           /\ getCurrentRound(games, rounds, g) # Null
           /\ rounds[getCurrentRound(games, rounds, g)].status = "completed")
          => LET view ==
                     renderGamePhase(getGameWithPlayers(games, rounds, g))
                 number ==
                     rounds[getCurrentRound(games, rounds, g)].roundNumber
             IN /\ number = games[g].totalRounds => view = "Game Completed!"
                /\ number < games[g].totalRounds => view = "Next Round"]_vars

(***************************************************************************)
(* SpecPlay: games played by the rules, one request at a time: the judge   *)
(* starts writing, writers save and submit their poems, the judge selects  *)
(* a submitted poem of the round in judging, and next-round is requested   *)
(* at any time.                                                            *)
(***************************************************************************)
MaxPlayPlayers == 2

MaxPlayRounds == 2

PlayRosterInputs == {[i \in 1..n |-> i] : n \in 1..MaxPlayPlayers}

PlayCreateGameReq ==
    \E totalRounds \in TotalRoundsInputs, playerIds \in PlayRosterInputs,
       rnd \in ZeroStream :
        PostGames(totalRounds, playerIds, rnd, MaxPlayPlayers, MaxPlayRounds)

PlayNextRoundReq ==
    \E gameId \in 1..(Len(games) + 1), rnd \in ZeroStream :
        PostNextRound(gameId, rnd, MaxPlayRounds)

\* A writer submits a poem of a round in writing.
PlaySubmitReq ==
    \E poemId \in DOMAIN poems :
        /\ ~poems[poemId].submitted
        /\ rounds[poems[poemId].roundId].status = "writing"
        /\ PostPoemSubmit(poemId)

NextPlay ==
    \/ PlayCreateGameReq
    \/ PlayNextRoundReq
    \/ StartWritingReq
    \/ DraftUpdateReq
    \/ PlaySubmitReq
    \/ JudgingWinnerReq

SpecPlay == Init /\ [][NextPlay]_vars

(***************************************************************************)
(* C37: a successful next-round request leaves every existing round, every *)
(* existing poem and every player as they were; it adds one round, adds    *)
(* poems of that round only, and advances currentRound of its game by 1    *)
(* and currentJudgeIndex by 1 modulo the roster size, leaving the game's   *)
(* other fields and the other games unchanged.                             *)
(***************************************************************************)
C37_NextRoundFrame ==
    [][\A g \in DOMAIN games, rnd \in ZeroStream :
          (PostNextRound(g, rnd, MaxPlayRounds) /\ resp' = 200)
          => /\ \A r \in DOMAIN rounds : rounds'[r] = rounds[r]
             /\ \A p \in DOMAIN poems : poems'[p] = poems[p]
             /\ players' = players
             /\ Len(rounds') = Len(rounds) + 1
             /\ rounds'[Len(rounds')].gameId = g
             /\ \A p \in DOMAIN poems' :
                   p \notin DOMAIN poems
                   => poems'[p].roundId = Len(rounds')
             /\ games'[g].currentRound = games[g].currentRound + 1
             /\ games'[g].currentJudgeIndex =
                   (games[g].currentJudgeIndex + 1) % RosterSize(g)
             /\ games'[g].totalRounds = games[g].totalRounds
             /\ games'[g].status = games[g].status
             /\ \A h \in DOMAIN games : h # g => games'[h] = games[h]]_vars

\* A second round was added to a game whose first round is completed with
\* a winner, a submitted poem and a point awarded.
C37_Witness ==
    /\ resp = 200
    /\ Len(rounds) = 2
    /\ rounds[1].status = "completed"
    /\ rounds[1].winnerId # Null
    /\ rounds[2].status = "setup"
    /\ games[rounds[2].gameId].currentRound = 2
    /\ \E p \in getPoemsByRound(poems, 1) : poems[p].submitted
    /\ \E m \in DOMAIN players : players[m].score = 1
    /\ getPoemsByRound(poems, 2) # {}

(***************************************************************************)
(* SpecLive: one game played by the rules under fairness.  The judge       *)
(* starts writing; writers save and submit poems; the timer of the judge's *)
(* client expires and moves the round to judging; the judge selects a poem *)
(* of the round in judging; next-round is requested once the current round *)
(* is completed.  Every request, once sent, is handled to completion, so   *)
(* each of the requests the players are bound to send is weakly fair.      *)
(***************************************************************************)
MaxLivePlayers == 2

LiveCreateGameReq ==
    \E totalRounds \in TotalRoundsInputs,
       playerIds \in RosterInputs(MaxLivePlayers), rnd \in ZeroStream :
        PostGames(totalRounds, playerIds, rnd, MaxLivePlayers,
                  MaxTotalRounds)

\* The judge selects a poem of the round in judging.
LiveWinnerReq ==
    \E roundId \in DOMAIN rounds, poemId \in DOMAIN poems :
        /\ rounds[roundId].status = "judging"
        /\ poems[poemId].roundId = roundId
        /\ PostRoundWinner(roundId, poemId)

\* Next Round is requested for a game whose current round is completed.
LiveNextRoundReq ==
    \E gameId \in DOMAIN games, rnd \in ZeroStream :
        /\ getCurrentRound(games, rounds, gameId) # Null
        /\ rounds[getCurrentRound(games, rounds, gameId)].status
              = "completed"
        /\ PostNextRound(gameId, rnd, MaxTotalRounds)

NextLive ==
    \/ LiveCreateGameReq
    \/ StartWritingReq
    \/ DraftUpdateReq
    \/ PlaySubmitReq
    \/ ManualJudgingReq
    \/ LiveWinnerReq
    \/ LiveNextRoundReq

FairLive ==
    /\ WF_vars(StartWritingReq)
    /\ WF_vars(ManualJudgingReq)
    /\ WF_vars(LiveWinnerReq)
    /\ WF_vars(LiveNextRoundReq)

SpecLive == Init /\ [][NextLive]_vars /\ FairLive

\* The game has reached its last round and that round is completed.
GameFinished(g) ==
    /\ g \in DOMAIN games
    /\ games[g].currentRound = games[g].totalRounds
    /\ \E r \in DOMAIN rounds :
          /\ rounds[r].gameId = g
          /\ rounds[r].roundNumber = games[g].totalRounds
          /\ rounds[r].status = "completed"

(***************************************************************************)
(* C38: under fairness every round eventually reaches completed and every  *)
(* game eventually reaches currentRound = totalRounds with its last round  *)
(* completed, after which no further round is created.                     *)
(***************************************************************************)
C38_GameEventuallyFinishes ==
    /\ \A r \in 1..MaxTotalRounds :
          (r \in DOMAIN rounds)
              ~> (r \in DOMAIN rounds /\ rounds[r].status = "completed")
    /\ \A g \in 1..MaxGames : (g \in DOMAIN games) ~> GameFinished(g)
    /\ [][(\E g \in DOMAIN games : GameFinished(g))
             => Len(rounds') = Len(rounds)]_vars

====
